---------------------------- MODULE Spec2Model ----------------------------
(***************************************************************************)
(* A model of the Notion block-tree flattener (NotionDocumentClient), of   *)
(* the bounded-concurrency crawler (Crawl4AICrawler), of the Document      *)
(* value (Document, DocumentMetadata) and of the extract_notion_documents  *)
(* step of the second-brain-offline application.                           *)
(*                                                                         *)
(* Text is a sequence of tokens: the three layout characters the code      *)
(* treats specially (newline, space, tab) are tokens of their own, every   *)
(* other token is an opaque run of characters without layout at its ends.  *)
(* A URL is a sequence of tokens too, "/" being its own token, so that     *)
(* endswith('/') is a test of the last token.                              *)
(*                                                                         *)
(* Two names the source calls are not the names it defines:                *)
(* extract_document and __parse_blocks call __retrieve_child_blocks, the   *)
(* class defines __retrive_child_blocks; __crawl_batch calls __crawl_page, *)
(* the class defines __crawl_url.  The model binds each call to the one    *)
(* method of the class that has the called signature.                      *)
(***************************************************************************)
EXTENDS Integers, Sequences, FiniteSets, TLC

VARIABLES
    \* ---- flattener (steps/infrastructure/notion/document.py)
    fpc,        \* extract_document: "idle", "running", "returned", "raised"
    stack,      \* the suspended __parse_blocks frames, outermost first
    root,       \* the block list extract_document passed to __parse_blocks
    result,     \* the (content, child_urls) extract_document received
    ferror,     \* the exception that left extract_document, "" if none
    left,       \* blocks the block source may still hand out
    maxDepth,   \* the largest depth argument of any __parse_blocks call, -1 if none
    nfetch,     \* child-block fetches issued from inside __parse_blocks
    rawUrls,    \* the urls list of the outermost call just before line 245
    visited,    \* the blocks the loop of __parse_blocks looked at: type, has_children, depth
    warned,     \* the block types logged as unknown (line 224), with the depth
    normalized, \* the calls of __normalize_url made: argument and value
    replay,     \* whether the block source is kept for a second call
    source,     \* the block source as far as it was read: the answer of each fetch
    first,      \* how the first of two extract_document calls ended
    \* ---- crawler (src/second_brain_offline/application/crawlers/crawl4ai.py)
    loop_running,   \* whether an event loop runs in the thread that calls the crawler
    max_concurrent_requests,    \* the cap the crawler was constructed with
    pages,      \* the input documents: the number of child_urls of each
    epc,        \* __crawl_batch: "idle", "gather", "returned", "raised"
    eerror,     \* the exception that left __crawl_batch, "" if none
    page,       \* the index of the page whose tasks are gathered
    tasks,      \* tasks[p][i]: the state of the task of url i of page p
    semaphor,   \* the free permits of the semaphore
    all_results,    \* the gathered results, pages in order
    returned,   \* the list __crawl_batch returned
    counts,     \* success_count, failed_count, total_count as logged
    \* ---- __extract_urls called on its own
    spans,      \* the rich_text list it is called with
    extracted,  \* NotCalled, or how the call ended: raised, or the list returned
    \* ---- a Document (src/second_brain_offline/domain/document.py)
    document,   \* the Document object: its fields as they are now
    assembled,  \* the Document as extract_document returned it
    last_op,    \* the method called on the Document last
    written,    \* the file the last write made: its name and what it holds
    \* ---- the step (steps/collect_notion_data/extract_notion_document.py)
    document_metadata,  \* the list of DocumentMetadata the step is given
    spc,        \* extract_notion_documents: "idle", "returned", "raised"
    documents,  \* the documents list of the step
    step_output,    \* what the step returned
    len_documents   \* the output metadata the step attached last

fvars == <<fpc, stack, root, result, ferror, left, maxDepth, nfetch, rawUrls,
           visited, warned, normalized, replay, source, first>>

evars == <<loop_running, max_concurrent_requests, pages, epc, eerror, page, tasks, semaphor,
           all_results, returned, counts>>

uvars == <<spans, extracted>>

dvars == <<document, assembled, last_op, written>>

svars == <<document_metadata, spc, documents, step_output, len_documents>>

\* the state outside the flattener and the crawler
xvars == <<spans, extracted, document, assembled, last_op, written,
           document_metadata, spc, documents, step_output, len_documents>>

vars == <<fpc, stack, root, result, ferror, left, maxDepth, nfetch, rawUrls,
          visited, warned, normalized, replay, source, first,
          loop_running, max_concurrent_requests, pages, epc, eerror, page, tasks, semaphor,
          all_results, returned, counts, spans, extracted,
          document, assembled, last_op, written,
          document_metadata, spc, documents, step_output, len_documents>>

-----------------------------------------------------------------------------
(* Bounds of the model.                                                    *)

\* the longest block list one fetch returns
MaxBlocks == 2
\* the number of blocks the whole block source holds
MaxNodes == 5
\* the number of documents in a batch
MaxPages == 2
\* the number of child_urls of one document
MaxUrls == 2
\* the largest cap a crawler is constructed with
MaxCap == 2
\* the number of blocks a block source that is read twice holds
MaxStaticNodes == 4
\* the longest list of DocumentMetadata the step is given
MaxDocs == 2
\* the longest list of spans __extract_urls is called with
MaxSpans == 2

-----------------------------------------------------------------------------
(* Text.                                                                   *)

NL == "\\n"
SP == " "
TAB == "\\t"
\* the three backquotes that open and close a code block
FENCE == "'''"

Max(a, b) == IF a >= b THEN a ELSE b
Min(a, b) == IF a <= b THEN a ELSE b

Last(s) == s[Len(s)]
Front(s) == SubSeq(s, 1, Len(s) - 1)
Range(s) == {s[i] : i \in 1..Len(s)}

RECURSIVE Flatten(_)
\* the concatenation of a sequence of sequences
Flatten(ss) == IF ss = <<>> THEN <<>> ELSE Head(ss) \o Flatten(Tail(ss))

RECURSIVE LStrip(_)
LStrip(s) == IF s # <<>> /\ Head(s) \in {NL, SP} THEN LStrip(Tail(s)) ELSE s

RECURSIVE RStrip(_)
RStrip(s) == IF s # <<>> /\ Last(s) \in {NL, SP} THEN RStrip(Front(s)) ELSE s

\* str.strip("\n "), line 248
Strip(s) == RStrip(LStrip(s))

\* "\n".join("\t" + line for line in s.split("\n")), line 239
Indent(s) == <<TAB>> \o Flatten([i \in 1..Len(s) |-> IF s[i] = NL THEN <<NL, TAB>> ELSE <<s[i]>>])

-----------------------------------------------------------------------------
(* URLs and inline spans.                                                  *)

\* the empty string; None is as falsy as it
NoUrl == <<>>

\* the "/" appended without the test of line 282
AlwaysAppends(url) == url \o <<"/">>

\* __normalize_url, lines 273-284
normalize_url(url) == IF url # <<>> /\ Last(url) = "/" THEN url ELSE url \o <<"/">>

\* A span: its plain text, its href, and its annotations: "absent" (no
\* annotations key, or an empty dict), "style" (a non-empty dict with no
\* 'url' key) or "url" (a dict with a 'url' key).
Span(t, h, k, u) == [plain_text |-> t, href |-> h, annotations |-> [kind |-> k, url |-> u]]

\* what one span contributes in __extract_urls, lines 262-269:
\* a KeyError, or the list of the URLs it appends
SpanUrl(text) ==
    IF text.href # NoUrl
    THEN [err |-> FALSE, urls |-> <<normalize_url(text.href)>>]
    ELSE IF text.annotations.kind = "absent"
    THEN [err |-> FALSE, urls |-> <<>>]
    ELSE IF text.annotations.kind = "style"
    THEN [err |-> TRUE, urls |-> <<>>]
    ELSE IF text.annotations.url # NoUrl
    THEN [err |-> FALSE, urls |-> <<normalize_url(text.annotations.url)>>]
    ELSE [err |-> FALSE, urls |-> <<>>]

extract_urls(rich_text) ==
    [err |-> \E i \in 1..Len(rich_text) : SpanUrl(rich_text[i]).err,
     urls |-> Flatten([i \in 1..Len(rich_text) |-> SpanUrl(rich_text[i]).urls])]

\* the text of a list of spans: their plain texts, concatenated
parse_rich_text(rich_text) == Flatten([i \in 1..Len(rich_text) |-> rich_text[i].plain_text])

-----------------------------------------------------------------------------
(* Blocks.                                                                 *)

HeadingTypes == {"heading_1", "heading_2", "heading_3"}
ParagraphTypes == {"paragraph", "quote"}
ListItemTypes == {"bulleted_list_item", "numbered_list_item"}
TextTypes == HeadingTypes \cup ParagraphTypes \cup ListItemTypes \cup {"to_do", "code"}

\* a child_page block without a title key
NoTitle == <<>>

\* A block: its type, its has_children flag, and the payload of its type:
\* rich_text (the text types), url (image: external.url, link_preview: url;
\* NoUrl when the key is missing), title (child_page).
Block(t, hc, rt, u, ti) ==
    [type |-> t, has_children |-> hc, rich_text |-> rt, url |-> u, title |-> ti]

RT_plain == <<Span(<<"a">>, NoUrl, "absent", NoUrl)>>
RT_links == <<Span(<<"b">>, <<"u">>, "absent", NoUrl), Span(<<"c">>, <<"u", "/">>, "style", NoUrl)>>
RT_styled == <<Span(<<"a">>, NoUrl, "style", NoUrl)>>
RT_annot == <<Span(<<"d">>, NoUrl, "url", <<"v">>)>>

\* The blocks the block source draws from ("table" is a type
\* __parse_blocks has no branch for).
BlockUniverse ==
    { Block("heading_1", FALSE, RT_plain, NoUrl, NoTitle),
      Block("paragraph", FALSE, RT_links, NoUrl, NoTitle),
      Block("paragraph", TRUE, RT_styled, NoUrl, NoTitle),
      Block("bulleted_list_item", TRUE, RT_links, NoUrl, NoTitle),
      Block("to_do", FALSE, <<>>, NoUrl, NoTitle),
      Block("code", FALSE, RT_annot, NoUrl, NoTitle),
      Block("image", FALSE, <<>>, NoUrl, NoTitle),
      Block("divider", FALSE, <<>>, NoUrl, NoTitle),
      Block("link_preview", FALSE, <<>>, NoUrl, NoTitle),
      Block("link_preview", FALSE, <<>>, <<"u">>, NoTitle),
      Block("child_page", TRUE, <<>>, NoUrl, <<"t">>),
      Block("table", TRUE, <<>>, NoUrl, NoTitle) }

\* the block lists of at most n blocks
BlockLists(n) == UNION {[1..k -> BlockUniverse] : k \in 0..n}

\* The text a block of a type without recursion appends to content,
\* lines 149-195 and 215-218; nothing for any other type (lines 223-224).
BlockText(block) ==
    LET text == parse_rich_text(block.rich_text) IN
    IF block.type \in HeadingTypes THEN <<"#", SP>> \o text \o <<NL, NL>>
    ELSE IF block.type \in ParagraphTypes THEN text \o <<NL>>
    ELSE IF block.type \in ListItemTypes THEN <<"-", SP>> \o text \o <<NL>>
    ELSE IF block.type = "to_do" THEN <<"[]", SP>> \o text \o <<NL>>
    ELSE IF block.type = "code" THEN <<FENCE, NL>> \o text \o <<NL, FENCE>>
    ELSE IF block.type = "image"
    THEN <<"[Image](">> \o (IF block.url = NoUrl THEN <<"No URL">> ELSE block.url) \o <<")", NL>>
    ELSE IF block.type = "divider" THEN <<"---", NL, NL>>
    ELSE IF block.type = "link_preview" THEN <<"[Link Preview](">> \o block.url \o <<")", NL>>
    ELSE <<>>

\* The URLs the type branch of a block appends to urls (lines 154-185, 220).
BlockUrls(block) ==
    IF block.type \in TextTypes THEN extract_urls(block.rich_text)
    ELSE IF block.type = "link_preview"
    THEN [err |-> FALSE, urls |-> <<normalize_url(block.url)>>]
    ELSE [err |-> FALSE, urls |-> <<>>]

-----------------------------------------------------------------------------
(* The block source.                                                       *)

\* How one GET of a block's children ends: "ok" (a 2xx response whose JSON
\* holds results), "http_error" (raise_for_status raises an HTTPError, which
\* carries the response), "no_response" (a RequestException without a
\* response: connection error, timeout), "malformed" (a 2xx response whose
\* body is not the expected JSON object).
FetchOutcomes(n) ==
    {[status |-> "ok", results |-> bl] : bl \in BlockLists(n)}
        \cup {[status |-> s, results |-> <<>>] : s \in {"http_error", "no_response", "malformed"}}

\* __retrive_child_blocks: the block list it returns, or the exception that
\* leaves it.  The handler of line 106 reads e.response.status_code whenever
\* e has a response attribute, which every RequestException has; without a
\* response that attribute is None and the read raises AttributeError out
\* of the handler.
retrive_child_blocks(outcome) ==
    IF outcome.status = "ok" THEN [raised |-> FALSE, blocks |-> outcome.results]
    ELSE IF outcome.status = "no_response" THEN [raised |-> TRUE, blocks |-> <<>>]
    ELSE [raised |-> FALSE, blocks |-> <<>>]

-----------------------------------------------------------------------------
(* __parse_blocks.                                                         *)

\* the depth up to which a child_page is followed, line 198
MaxChildPageDepth == 3

\* lines 201-204
ChildPageOpen(block) ==
    <<NL, NL, "<child_page>", NL, "#", SP>>
        \o (IF block.title = NoTitle THEN <<"Untitled">> ELSE block.title) \o <<NL, NL>>
\* line 211
ChildPageClose == <<NL, "</child_page>", NL, NL>>

Ev(k, e, d, c, u, v) == [kind |-> k, error |-> e, depth |-> d, content |-> c, urls |-> u, via |-> v]

\* whether the child_page branch is taken, line 198
FollowsChildPage(block, depth) == block.type = "child_page" /\ depth < MaxChildPageDepth

\* whether the nested children of a block are fetched, lines 228-232
FollowsChildren(block, depth) == block.type # "child_page" /\ block.has_children

\* One call of __parse_blocks up to the first thing that ends or suspends it:
\*   "none"   the loop body never ran and the function fell off its end;
\*   "raise"  an exception left it;
\*   "call"   it fetches the children of a block (via the child_page branch
\*            or via has_children) with content and urls as they are then;
\*   "done"   it reached line 245 with content and urls.
\* Lines 245-248 are part of the loop body, so only the first block of the
\* list is ever looked at.
parse_blocks(blocks, depth) ==
    IF blocks = <<>> THEN Ev("none", "", depth, <<>>, <<>>, "")
    ELSE LET block == Head(blocks)
             u == BlockUrls(block)
         IN  IF FollowsChildPage(block, depth)
             THEN Ev("call", "", depth, ChildPageOpen(block), <<>>, "child_page")
             ELSE IF u.err THEN Ev("raise", "KeyError", depth, <<>>, <<>>, "")
             ELSE IF FollowsChildren(block, depth)
             THEN Ev("call", "", depth, BlockText(block), u.urls, "has_children")
             ELSE Ev("done", "", depth, BlockText(block), u.urls, "")

\* the suspended call once its recursive call has returned (child_content,
\* child_urls): lines 211-212 and 238-242
AfterCall(frame, ret) ==
    IF frame.via = "child_page"
    THEN [content |-> frame.content \o ret.content \o ChildPageClose,
          urls |-> frame.urls \o ret.urls]
    ELSE [content |-> frame.content \o Indent(ret.content) \o <<NL, NL>>,
          urls |-> frame.urls \o ret.urls]

\* line 245 followed by a cut of the list to its first entry
DedupeCut(urls) ==
    LET S == Range(urls)
    IN  {SubSeq(o, 1, Min(1, Len(o))) : o \in {q \in [1..Cardinality(S) -> S] : Range(q) = S}}

\* line 245 left out: the list as it is
DedupeSkipped(urls) == {urls}

\* list(set(urls)), line 245: the distinct entries, in any order
Dedupe(urls) ==
    LET S == Range(urls)
    IN  {o \in [1..Cardinality(S) -> S] : Range(o) = S}

\* the values a call that reached line 245 may return (lines 245-248)
Returns(content, urls) ==
    {[none |-> FALSE, content |-> Strip(content), urls |-> o, raw |-> urls] : o \in Dedupe(urls)}

ReturnsNone == [none |-> TRUE, content |-> <<>>, urls |-> <<>>, raw |-> <<>>]

\* no call of extract_document has ended yet
NoCall == [fpc |-> "idle", ferror |-> "", result |-> [content |-> <<>>, urls |-> <<>>]]

Ended(pc, e, ret) == [fpc |-> pc, ferror |-> e, result |-> [content |-> ret.content, urls |-> ret.urls], raw |-> ret.raw]

RECURSIVE Unwind(_, _)
\* How extract_document ends once the innermost call has returned ret to the
\* suspended calls stk.  Unpacking None (lines 51, 208, 235) raises
\* TypeError, and nothing on the way up catches it.
Unwind(stk, ret) ==
    IF ret.none THEN {Ended("raised", "TypeError", ReturnsNone)}
    ELSE IF stk = <<>> THEN {Ended("returned", "", ret)}
    ELSE LET after == AfterCall(Last(stk), ret)
         IN  UNION {Unwind(Front(stk), r) : r \in Returns(after.content, after.urls)}

EndWith(t) ==
    /\ fpc' = t.fpc
    /\ ferror' = t.ferror
    /\ result' = t.result
    /\ rawUrls' = t.raw
    /\ stack' = <<>>

\* whether a block falls through every branch to the warning of lines 223-224
Unrecognized(block, depth) ==
    /\ block.type \notin TextTypes \cup {"image", "divider", "link_preview"}
    /\ ~FollowsChildPage(block, depth)

\* the URL a span hands to __normalize_url (lines 262-269), if any
SpanNormalizes(text) ==
    IF text.href # NoUrl THEN {text.href}
    ELSE IF text.annotations.kind = "url" /\ text.annotations.url # NoUrl
    THEN {text.annotations.url}
    ELSE {}

\* the arguments of the __normalize_url calls the branch of a block makes:
\* those of its spans up to the first span that raises, or the url of a
\* link_preview (line 220)
NormalizeArguments(block, depth) ==
    IF FollowsChildPage(block, depth) THEN {}
    ELSE IF block.type \in TextTypes
    THEN UNION {SpanNormalizes(block.rich_text[i]) :
                    i \in {j \in 1..Len(block.rich_text) :
                              \A k \in 1..j : ~SpanUrl(block.rich_text[k]).err}}
    ELSE IF block.type = "link_preview" THEN {block.url}
    ELSE {}

\* what the loop body leaves in the log and in the record of the blocks
\* looked at and of the __normalize_url calls, for the one block it runs on
Looked(blocks, depth) ==
    IF blocks = <<>>
    THEN /\ UNCHANGED <<visited, warned, normalized>>
    ELSE LET block == Head(blocks)
         IN  /\ visited' = Append(visited, [type |-> block.type, has_children |-> block.has_children,
                                         depth |-> depth])
             /\ warned' = IF Unrecognized(block, depth)
                          THEN Append(warned, [type |-> block.type, depth |-> depth])
                          ELSE warned
             /\ normalized' = normalized \cup
                    {[url |-> u, value |-> normalize_url(u)] : u \in NormalizeArguments(block, depth)}

\* The answers the block source may give to the fetch of the node below
\* the suspended calls stk: a source that was read before answers as it did
\* then, a source not read yet answers with any list it can still hold.
Answers(stk) ==
    IF Len(stk) < Len(source) THEN {source[Len(stk) + 1]}
    ELSE FetchOutcomes(Min(MaxBlocks, left))

\* A fetch of child blocks ending with outcome, and the call
\* __parse_blocks(blocks, depth) that follows it, below the suspended calls
\* stk, up to the next fetch or the end of extract_document.
FetchAndParse(stk, outcome, depth) ==
    LET fetched == retrive_child_blocks(outcome)
        ev == parse_blocks(fetched.blocks, depth)
        known == Len(stk) < Len(source)
    IN  /\ source' = IF replay /\ ~known THEN Append(source, outcome) ELSE source
        /\ UNCHANGED <<replay, first>>
        /\ IF fetched.raised
           THEN /\ EndWith(Ended("raised", "AttributeError", ReturnsNone))
                /\ UNCHANGED <<root, left, maxDepth, nfetch, visited, warned, normalized>>
           ELSE /\ left' = IF known THEN left ELSE left - Len(fetched.blocks)
                /\ maxDepth' = Max(maxDepth, depth)
                /\ root' = IF depth = 0 THEN fetched.blocks ELSE root
                /\ Looked(fetched.blocks, depth)
                /\ IF ev.kind = "call"
                   THEN /\ stack' = Append(stk, [depth |-> depth, content |-> ev.content,
                                                 urls |-> ev.urls, via |-> ev.via])
                        /\ nfetch' = nfetch + 1
                        /\ fpc' = "running"
                        /\ UNCHANGED <<ferror, result, rawUrls>>
                   ELSE /\ nfetch' = nfetch
                        /\ IF ev.kind = "raise"
                           THEN EndWith(Ended("raised", ev.error, ReturnsNone))
                           ELSE IF ev.kind = "none"
                           THEN \E t \in Unwind(stk, ReturnsNone) : EndWith(t)
                           ELSE \E r \in Returns(ev.content, ev.urls) :
                                    \E t \in Unwind(stk, r) : EndWith(t)

\* extract_document, lines 47-51: the fetch of the page's own blocks and the
\* outermost call of __parse_blocks
ExtractDocument ==
    /\ fpc = "idle"
    /\ \E outcome \in Answers(<<>>) : FetchAndParse(<<>>, outcome, 0)
    /\ UNCHANGED <<evars, xvars>>

\* the fetch a suspended __parse_blocks waits for (lines 207, 234) ends, and
\* the recursive call of lines 208, 235 runs
RetrieveChildBlocks ==
    /\ fpc = "running"
    /\ \E outcome \in Answers(stack) :
           FetchAndParse(stack, outcome, Last(stack).depth + 1)
    /\ UNCHANGED <<evars, xvars>>

NextFlatten == ExtractDocument \/ RetrieveChildBlocks

\* The caller keeps what the first extract_document call gave and calls
\* extract_document again on the same page: nothing of the first call is
\* left in the client (it holds its api_key only, lines 24-35), every local
\* of the call is new.
CallAgain ==
    /\ replay
    /\ first = NoCall
    /\ fpc \in {"returned", "raised"}
    /\ first' = [fpc |-> fpc, ferror |-> ferror, result |-> result]
    /\ fpc' = "idle"
    /\ result' = [content |-> <<>>, urls |-> <<>>]
    /\ ferror' = ""
    /\ root' = <<>>
    /\ maxDepth' = -1
    /\ nfetch' = 0
    /\ rawUrls' = <<>>
    /\ visited' = <<>>
    /\ UNCHANGED <<stack, left, warned, normalized, replay, source>>
    /\ UNCHANGED <<evars, xvars>>

NextTwice == ExtractDocument \/ RetrieveChildBlocks \/ CallAgain

-----------------------------------------------------------------------------
(* The crawler.                                                            *)

\* A task is "pending" (its page is not reached yet), "waiting" (scheduled,
\* not inside the semaphore), "in_flight" (inside the semaphore), or ended:
\* "ok" (it returned a Document), "fail" (it returned None), "raised" (an
\* exception left it), "cancelled".

\* the ways the body of __crawl_url ends
CrawlOutcomes == {"ok", "fail", "raised"}

None == [page |-> 0, url |-> 0]
\* the Document made from url i of page p
Doc(p, i) == [page |-> p, url |-> i]

Batches == UNION {[1..n -> 0..MaxUrls] : n \in 0..MaxPages}

\* asyncio.Semaphore(value), line 80: a negative value raises ValueError
SemaphoreRejects(value) == value < 0

\* the first page from p on that has a task to wait for, Len(pages) + 1 if
\* there is none: gathering no task at all returns at once
NextPage(p) ==
    IF \E q \in p..Len(pages) : pages[q] > 0
    THEN CHOOSE q \in p..Len(pages) : pages[q] > 0 /\ \A r \in p..(q - 1) : pages[r] = 0
    ELSE Len(pages) + 1

\* what gather hands back for page p, in the order of its tasks (line 102)
Gathered(p) == [i \in 1..pages[p] |-> IF tasks[p][i] = "ok" THEN Doc(p, i) ELSE None]

\* line 115 without its filter
KeepAll(results) == results

\* [result for result in all_results if result is not None], line 115
successful_results(results) == SelectSeq(results, LAMBDA r : r # None)

\* the successes counted as the failures
CountsSuccesses(results) == Len(successful_results(results))

\* len(all_results) - success_count, line 118
failed_count(results) == Len(results) - Len(successful_results(results))

\* The for loop of lines 89-103 from page p on, with results gathered so
\* far: it suspends in the gather of the next page that has tasks, or the
\* loop ends and __crawl_batch returns (lines 115-126).
Continue(p, results) ==
    LET q == NextPage(p)
    IN  IF q <= Len(pages)
        THEN /\ epc' = "gather"
             /\ page' = q
             /\ tasks' = [tasks EXCEPT ![q] = [i \in 1..pages[q] |-> "waiting"]]
             /\ all_results' = results
             /\ UNCHANGED <<returned, counts, eerror>>
        ELSE /\ epc' = "returned"
             /\ page' = q
             /\ all_results' = results
             /\ returned' = successful_results(results)
             /\ counts' = [success_count |-> Len(successful_results(results)),
                           failed_count |-> failed_count(results),
                           total_count |-> Len(results)]
             /\ UNCHANGED <<tasks, eerror>>

\* __call__ (lines 38-52) and __crawl_batch up to its first gather (lines
\* 80-102).  With no event loop running asyncio.run runs the batch.  With
\* one running, loop.run_until_complete is called on the running loop, which
\* raises RuntimeError ("This event loop is already running") before the
\* coroutine is started.
CrawlBatch ==
    /\ epc = "idle"
    /\ IF loop_running
       THEN /\ epc' = "raised"
            /\ eerror' = "RuntimeError"
            /\ UNCHANGED <<page, tasks, semaphor, all_results, returned, counts>>
       ELSE IF SemaphoreRejects(max_concurrent_requests)
       THEN /\ epc' = "raised"
            /\ eerror' = "ValueError"
            /\ UNCHANGED <<page, tasks, semaphor, all_results, returned, counts>>
       ELSE /\ semaphor' = max_concurrent_requests
            /\ Continue(1, <<>>)
    /\ UNCHANGED <<loop_running, max_concurrent_requests, pages>>
    /\ UNCHANGED <<fvars, xvars>>

\* leaving the semaphore never happens
KeepHeld(value) == value

\* Semaphore.release, on leaving line 147's block
Released(value) == value + 1

\* entering the semaphore whatever its value
NeverLocked(value) == TRUE

\* whether Semaphore.acquire goes through, on entering line 147's block
CanAcquire(value) == value > 0

\* task i of the gathered page enters the semaphore (line 147)
Acquire(i) ==
    /\ epc = "gather"
    /\ i <= pages[page]
    /\ tasks[page][i] = "waiting"
    /\ CanAcquire(semaphor)
    /\ semaphor' = semaphor - 1
    /\ tasks' = [tasks EXCEPT ![page][i] = "in_flight"]
    /\ UNCHANGED <<loop_running, max_concurrent_requests, pages, epc, eerror, page, all_results, returned, counts>>
    /\ UNCHANGED <<fvars, xvars>>

\* the permit given back only by a task that ends without raising
FinishLeaksOnRaise(i) ==
    /\ epc = "gather"
    /\ i <= pages[page]
    /\ tasks[page][i] = "in_flight"
    /\ \E o \in CrawlOutcomes :
        /\ tasks' = [tasks EXCEPT ![page][i] = o]
        /\ semaphor' = IF o = "raised" THEN semaphor ELSE Released(semaphor)
    /\ UNCHANGED <<loop_running, max_concurrent_requests, pages, epc, eerror, page, all_results, returned, counts>>
    /\ UNCHANGED <<fvars, xvars>>

\* the fetch of task i ends and the task leaves the semaphore
Finish(i) ==
    /\ epc = "gather"
    /\ i <= pages[page]
    /\ tasks[page][i] = "in_flight"
    /\ \E o \in CrawlOutcomes : tasks' = [tasks EXCEPT ![page][i] = o]
    /\ semaphor' = Released(semaphor)
    /\ UNCHANGED <<loop_running, max_concurrent_requests, pages, epc, eerror, page, all_results, returned, counts>>
    /\ UNCHANGED <<fvars, xvars>>

\* gather not awaited: the loop goes on to the next page while tasks of
\* this page are still waiting or in flight
GatherNotAwaited ==
    /\ epc = "gather"
    /\ Continue(page + 1, all_results \o Gathered(page))
    /\ UNCHANGED <<loop_running, max_concurrent_requests, pages, semaphor>>
    /\ UNCHANGED <<fvars, xvars>>

\* every task of the page returned: gather hands back their results
\* (line 102), line 103 keeps them, and the loop goes on
GatherReturns ==
    /\ epc = "gather"
    /\ \A i \in 1..pages[page] : tasks[page][i] \in {"ok", "fail"}
    /\ Continue(page + 1, all_results \o Gathered(page))
    /\ UNCHANGED <<loop_running, max_concurrent_requests, pages, semaphor>>
    /\ UNCHANGED <<fvars, xvars>>

\* A task raised: gather, called without return_exceptions, raises that
\* exception in __crawl_batch (line 102), which nothing catches;
\* asyncio.run (line 46) cancels the tasks still running, each of which
\* leaves the semaphore, and raises the exception to the caller.
GatherRaises ==
    /\ epc = "gather"
    /\ \E i \in 1..pages[page] : tasks[page][i] = "raised"
    /\ epc' = "raised"
    /\ eerror' = "TaskError"
    /\ tasks' = [tasks EXCEPT ![page] =
                    [i \in 1..pages[page] |->
                        IF tasks[page][i] \in {"waiting", "in_flight"} THEN "cancelled"
                        ELSE tasks[page][i]]]
    /\ semaphor' = semaphor + Cardinality({i \in 1..pages[page] : tasks[page][i] = "in_flight"})
    /\ UNCHANGED <<loop_running, max_concurrent_requests, pages, page, all_results, returned, counts>>
    /\ UNCHANGED <<fvars, xvars>>

NextExpand ==
    \/ CrawlBatch
    \/ \E i \in 1..MaxUrls : Acquire(i)
    \/ \E i \in 1..MaxUrls : Finish(i)
    \/ GatherReturns
    \/ GatherRaises

-----------------------------------------------------------------------------
(* __extract_urls on its own.                                              *)

\* the spans: every href (none, without and with a final "/") with every
\* annotations value (none, without a 'url' key, with a url, with 'url': None)
SpanUniverse ==
    {Span(<<"a">>, h, a[1], a[2]) :
        h \in {NoUrl, <<"u">>, <<"u", "/">>},
        a \in {<<"absent", NoUrl>>, <<"style", NoUrl>>, <<"url", <<"v">>>>, <<"url", NoUrl>>}}

RichTexts == UNION {[1..n -> SpanUniverse] : n \in 0..MaxSpans}

NotCalled == [called |-> FALSE, raised |-> FALSE, urls |-> <<>>]

\* one call of __extract_urls (lines 251-271)
ExtractUrls ==
    /\ extracted = NotCalled
    /\ extracted' = LET out == extract_urls(spans)
                    IN  [called |-> TRUE, raised |-> out.err,
                         urls |-> IF out.err THEN <<>> ELSE out.urls]
    /\ UNCHANGED <<spans, fvars, evars, dvars, svars>>

NextUrls == ExtractUrls

-----------------------------------------------------------------------------
(* Document and DocumentMetadata.                                          *)

\* An id and a url are sequences of tokens; "-" is a token of its own, any
\* other token of an id is a run of hex digits.

\* id.replace('-', ''), line 30
Undashed(id) == SelectSeq(id, LAMBDA t : t # "-")

RECURSIVE Replace(_, _, _)
\* str.replace(old, new): every occurrence of old, left to right; an empty
\* old matches before every character and at the end
Replace(s, old, new) ==
    IF old = <<>>
    THEN new \o Flatten([i \in 1..Len(s) |-> <<s[i]>> \o new])
    ELSE IF Len(s) < Len(old) THEN s
    ELSE IF SubSeq(s, 1, Len(old)) = old
    THEN new \o Replace(SubSeq(s, Len(old) + 1, Len(s)), old, new)
    ELSE <<Head(s)>> \o Replace(Tail(s), old, new)

\* the values utils.generate_random_hex(length=32) may return
generate_random_hex == {<<"e">>, <<"f">>}

\* no 'parent' key in properties; no parent_metadata
NoParent == [id |-> <<>>, url |-> <<>>, title |-> "", properties |-> "none"]

\* a DocumentMetadata; properties is the value of its 'parent' key
DocumentMetadata(id, url, title, parent) ==
    [id |-> id, url |-> url, title |-> title, properties |-> [parent |-> parent]]

\* DocumentMetadata.obsfucate, lines 30-37, with the hex string it drew
metadata_obsfucate(metadata, fake_id) ==
    [metadata EXCEPT !.id = fake_id,
                     !.url = Replace(metadata.url, Undashed(metadata.id), fake_id)]

NoSummary == <<>>
NoScore == -1

\* extract_document, lines 54-70: the Document made of the metadata record
\* and of what __parse_blocks returned.  properties.pop("parent") takes the
\* parent entry out of the record, which the Document then holds.
extract_document(metadata, content, urls) ==
    LET parent == metadata.properties.parent
    IN  [id |-> metadata.id,
         metadata |-> [metadata EXCEPT !.properties.parent = NoParent],
         parent_metadata |-> IF parent = NoParent THEN NoParent
                             ELSE DocumentMetadata(parent.id, parent.url, parent.title,
                                                   parent.properties.parent),
         content |-> content,
         content_quality_score |-> NoScore,
         summary |-> NoSummary,
         child_urls |-> urls]

\* line 139 left out: the Document keeps its id
ObsfucateKeepsId(doc, fake_id, parent_fake_id) ==
    [doc EXCEPT !.metadata = metadata_obsfucate(doc.metadata, fake_id),
                !.parent_metadata = IF doc.parent_metadata # NoParent
                                    THEN metadata_obsfucate(doc.parent_metadata, parent_fake_id)
                                    ELSE NoParent]

\* the summary stored in the content field
SummaryIntoContent(doc, summary) == [doc EXCEPT !.content = summary]

\* Document.add_summary, lines 77-81
add_summary(doc, summary) == [doc EXCEPT !.summary = summary]

\* Document.add_quality_score, lines 84-86
add_quality_score(doc, score) == [doc EXCEPT !.content_quality_score = score]

\* Document.obsfucate, lines 135-140, with the hex strings the two
\* DocumentMetadata.obsfucate calls drew
obsfucate(doc, fake_id, parent_fake_id) ==
    LET metadata == metadata_obsfucate(doc.metadata, fake_id)
    IN  [doc EXCEPT !.metadata = metadata,
                    !.parent_metadata = IF doc.parent_metadata # NoParent
                                        THEN metadata_obsfucate(doc.parent_metadata, parent_fake_id)
                                        ELSE NoParent,
                    !.id = metadata.id]

\* the text a write without also_save_as_txt leaves: no .txt file
NoText == <<"no .txt file">>

\* the test of line 107 left out: every write obfuscates
WriteObsfucates(doc, flag, also_save_as_txt, fake_id, parent_fake_id) ==
    LET d == obsfucate(doc, fake_id, parent_fake_id)
    IN  [document |-> d,
         file |-> [name |-> d.id, json |-> d,
                   txt |-> IF also_save_as_txt THEN d.content ELSE NoText]]

\* Document.write, lines 104-125: the Document afterwards and the file made;
\* flag is the obsfucate argument
write(doc, flag, also_save_as_txt, fake_id, parent_fake_id) ==
    LET d == IF flag THEN obsfucate(doc, fake_id, parent_fake_id) ELSE doc
    IN  [document |-> d,
         file |-> [name |-> d.id, json |-> d,
                   txt |-> IF also_save_as_txt THEN d.content ELSE NoText]]

NoDocument == extract_document(DocumentMetadata(<<>>, <<>>, "", NoParent), <<>>, <<>>)

\* nothing written yet
NoFile == [name |-> <<>>, json |-> NoDocument, txt |-> NoText]

\* the url of a page: it ends with the id of the page without its dashes
UrlOf(id) == <<"n/">> \o Undashed(id)

ParentRecord == DocumentMetadata(<<"9">>, UrlOf(<<"9">>), "P", NoParent)

\* the DocumentMetadata records: an id with and without dashes, with and
\* without a 'parent' entry in properties
Metadatas ==
    {DocumentMetadata(id, UrlOf(id), "T", parent) :
        id \in {<<"1", "-", "2">>, <<"3">>}, parent \in {NoParent, ParentRecord}}

Summaries == {<<"s">>, <<"r">>}
Scores == {0, 1}

AddSummary ==
    /\ \E summary \in Summaries : document' = add_summary(document, summary)
    /\ last_op' = "add_summary"
    /\ UNCHANGED <<assembled, written, fvars, evars, uvars, svars>>

AddQualityScore ==
    /\ \E score \in Scores : document' = add_quality_score(document, score)
    /\ last_op' = "add_quality_score"
    /\ UNCHANGED <<assembled, written, fvars, evars, uvars, svars>>

Obsfucate ==
    /\ \E fake_id, parent_fake_id \in generate_random_hex :
           document' = obsfucate(document, fake_id, parent_fake_id)
    /\ last_op' = "obsfucate"
    /\ UNCHANGED <<assembled, written, fvars, evars, uvars, svars>>

Write ==
    /\ \E flag, also_save_as_txt \in BOOLEAN :
          \E fake_id, parent_fake_id \in generate_random_hex :
              LET w == write(document, flag, also_save_as_txt, fake_id, parent_fake_id)
              IN  /\ document' = w.document
                  /\ written' = w.file
                  /\ last_op' = IF flag THEN "write_obsfucate" ELSE "write"
    /\ UNCHANGED <<assembled, fvars, evars, uvars, svars>>

NextDocument == AddSummary \/ AddQualityScore \/ Obsfucate \/ Write

-----------------------------------------------------------------------------
(* The extract_notion_documents step.                                      *)

\* the step returned nothing
NoOutput == [none |-> TRUE, list |-> <<>>]

MetadataLists == UNION {[1..n -> Metadatas] : n \in 0..MaxDocs}

\* line 39, first half: the loop body runs for the first record and calls
\* client.extract_document, which fetches the page's blocks and parses them
StepExtractDocument ==
    /\ spc = "idle"
    /\ document_metadata # <<>>
    /\ ExtractDocument

\* extract_notion_documents, lines 31-50, around the extract_document call:
\* with no record the loop body, which holds the return, never runs and the
\* step returns None; else the Document of the first record is appended
\* (line 39), the output metadata attached (lines 42-48) and the list
\* returned (line 50), or the exception of extract_document leaves the step.
ExtractNotionDocuments ==
    /\ spc = "idle"
    /\ IF document_metadata = <<>>
       THEN /\ spc' = "returned"
            /\ step_output' = NoOutput
            /\ UNCHANGED <<document_metadata, documents, len_documents>>
       ELSE /\ fpc \in {"returned", "raised"}
            /\ IF fpc = "raised"
               THEN /\ spc' = "raised"
                    /\ UNCHANGED <<document_metadata, documents, step_output, len_documents>>
               ELSE LET doc == extract_document(document_metadata[1], result.content, result.urls)
                    IN  /\ documents' = Append(documents, doc)
                        /\ document_metadata' = [document_metadata EXCEPT ![1] = doc.metadata]
                        /\ len_documents' = Len(documents')
                        /\ step_output' = [none |-> FALSE, list |-> documents']
                        /\ spc' = "returned"
    /\ UNCHANGED <<fvars, evars, uvars, dvars>>

NextCollect == StepExtractDocument \/ RetrieveChildBlocks \/ ExtractNotionDocuments

-----------------------------------------------------------------------------
(* extract_document called twice with the same DocumentMetadata record.    *)

\* extract_document, lines 54-70, once __parse_blocks has returned: the
\* Document is made and returned; the record, which the caller still
\* holds, has lost its 'parent' entry to properties.pop (line 54)
ReturnDocument ==
    /\ fpc = "returned"
    /\ document_metadata # <<>>
    /\ Len(documents) = IF first = NoCall THEN 0 ELSE 1
    /\ LET doc == extract_document(document_metadata[1], result.content, result.urls)
       IN  /\ documents' = Append(documents, doc)
           /\ document_metadata' = [document_metadata EXCEPT ![1] = doc.metadata]
    /\ UNCHANGED <<spc, step_output, len_documents>>
    /\ UNCHANGED <<fvars, evars, uvars, dvars>>

\* the caller, holding the Document of the first call if that call
\* returned, calls extract_document again with the same record
CallAgainWithRecord ==
    /\ fpc = "returned" => Len(documents) = 1
    /\ CallAgain

NextRecordTwice ==
    ExtractDocument \/ RetrieveChildBlocks \/ ReturnDocument \/ CallAgainWithRecord

-----------------------------------------------------------------------------
(* Specifications.                                                         *)

\* the flattener alone: one extract_document on some block source
InitFlatten ==
    /\ fpc = "idle"
    /\ stack = <<>>
    /\ root = <<>>
    /\ result = [content |-> <<>>, urls |-> <<>>]
    /\ ferror = ""
    /\ left = MaxNodes
    /\ maxDepth = -1
    /\ nfetch = 0
    /\ rawUrls = <<>>
    /\ visited = <<>>
    /\ warned = <<>>
    /\ normalized = {}
    /\ replay = FALSE
    /\ source = <<>>
    /\ first = NoCall
    /\ loop_running = FALSE
    /\ max_concurrent_requests = 1
    /\ pages = <<>>
    /\ epc = "idle"
    /\ eerror = ""
    /\ page = 0
    /\ tasks = <<>>
    /\ semaphor = 0
    /\ all_results = <<>>
    /\ returned = <<>>
    /\ counts = [success_count |-> 0, failed_count |-> 0, total_count |-> 0]
    /\ spans = <<>>
    /\ extracted = NotCalled
    /\ document = NoDocument
    /\ assembled = NoDocument
    /\ last_op = ""
    /\ written = NoFile
    /\ document_metadata = <<>>
    /\ spc = "idle"
    /\ documents = <<>>
    /\ step_output = NoOutput
    /\ len_documents = 0

SpecFlatten == InitFlatten /\ [][NextFlatten]_vars

\* the crawler alone: a crawler constructed with some cap (line 21), given
\* some batch, and not called yet
InitExpand ==
    /\ fpc = "idle"
    /\ stack = <<>>
    /\ root = <<>>
    /\ result = [content |-> <<>>, urls |-> <<>>]
    /\ ferror = ""
    /\ left = MaxNodes
    /\ maxDepth = -1
    /\ nfetch = 0
    /\ rawUrls = <<>>
    /\ visited = <<>>
    /\ warned = <<>>
    /\ normalized = {}
    /\ replay = FALSE
    /\ source = <<>>
    /\ first = NoCall
    /\ loop_running = FALSE
    /\ max_concurrent_requests \in -1..MaxCap
    /\ pages \in Batches
    /\ epc = "idle"
    /\ eerror = ""
    /\ page = 0
    /\ tasks = [p \in 1..Len(pages) |-> [i \in 1..pages[p] |-> "pending"]]
    /\ semaphor = 0
    /\ all_results = <<>>
    /\ returned = <<>>
    /\ counts = [success_count |-> 0, failed_count |-> 0, total_count |-> 0]
    /\ spans = <<>>
    /\ extracted = NotCalled
    /\ document = NoDocument
    /\ assembled = NoDocument
    /\ last_op = ""
    /\ written = NoFile
    /\ document_metadata = <<>>
    /\ spc = "idle"
    /\ documents = <<>>
    /\ step_output = NoOutput
    /\ len_documents = 0

SpecExpand == InitExpand /\ [][NextExpand]_vars

\* two extract_document calls, one after the other, on a block source that
\* does not change
InitTwice ==
    /\ fpc = "idle"
    /\ stack = <<>>
    /\ root = <<>>
    /\ result = [content |-> <<>>, urls |-> <<>>]
    /\ ferror = ""
    /\ left = MaxStaticNodes
    /\ maxDepth = -1
    /\ nfetch = 0
    /\ rawUrls = <<>>
    /\ visited = <<>>
    /\ warned = <<>>
    /\ normalized = {}
    /\ replay = TRUE
    /\ source = <<>>
    /\ first = NoCall
    /\ loop_running = FALSE
    /\ max_concurrent_requests = 1
    /\ pages = <<>>
    /\ epc = "idle"
    /\ eerror = ""
    /\ page = 0
    /\ tasks = <<>>
    /\ semaphor = 0
    /\ all_results = <<>>
    /\ returned = <<>>
    /\ counts = [success_count |-> 0, failed_count |-> 0, total_count |-> 0]
    /\ spans = <<>>
    /\ extracted = NotCalled
    /\ document = NoDocument
    /\ assembled = NoDocument
    /\ last_op = ""
    /\ written = NoFile
    /\ document_metadata = <<>>
    /\ spc = "idle"
    /\ documents = <<>>
    /\ step_output = NoOutput
    /\ len_documents = 0

SpecTwice == InitTwice /\ [][NextTwice]_vars

\* two extract_document calls with the same DocumentMetadata record, on a
\* block source that does not change
InitRecordTwice ==
    /\ fpc = "idle"
    /\ stack = <<>>
    /\ root = <<>>
    /\ result = [content |-> <<>>, urls |-> <<>>]
    /\ ferror = ""
    /\ left = MaxStaticNodes
    /\ maxDepth = -1
    /\ nfetch = 0
    /\ rawUrls = <<>>
    /\ visited = <<>>
    /\ warned = <<>>
    /\ normalized = {}
    /\ replay = TRUE
    /\ source = <<>>
    /\ first = NoCall
    /\ loop_running = FALSE
    /\ max_concurrent_requests = 1
    /\ pages = <<>>
    /\ epc = "idle"
    /\ eerror = ""
    /\ page = 0
    /\ tasks = <<>>
    /\ semaphor = 0
    /\ all_results = <<>>
    /\ returned = <<>>
    /\ counts = [success_count |-> 0, failed_count |-> 0, total_count |-> 0]
    /\ spans = <<>>
    /\ extracted = NotCalled
    /\ document = NoDocument
    /\ assembled = NoDocument
    /\ last_op = ""
    /\ written = NoFile
    /\ document_metadata \in {<<metadata>> : metadata \in Metadatas}
    /\ spc = "idle"
    /\ documents = <<>>
    /\ step_output = NoOutput
    /\ len_documents = 0

SpecRecordTwice == InitRecordTwice /\ [][NextRecordTwice]_vars

\* __extract_urls alone: one call on some list of spans
InitUrls ==
    /\ fpc = "idle"
    /\ stack = <<>>
    /\ root = <<>>
    /\ result = [content |-> <<>>, urls |-> <<>>]
    /\ ferror = ""
    /\ left = MaxNodes
    /\ maxDepth = -1
    /\ nfetch = 0
    /\ rawUrls = <<>>
    /\ visited = <<>>
    /\ warned = <<>>
    /\ normalized = {}
    /\ replay = FALSE
    /\ source = <<>>
    /\ first = NoCall
    /\ loop_running = FALSE
    /\ max_concurrent_requests = 1
    /\ pages = <<>>
    /\ epc = "idle"
    /\ eerror = ""
    /\ page = 0
    /\ tasks = <<>>
    /\ semaphor = 0
    /\ all_results = <<>>
    /\ returned = <<>>
    /\ counts = [success_count |-> 0, failed_count |-> 0, total_count |-> 0]
    /\ spans \in RichTexts
    /\ extracted = NotCalled
    /\ document = NoDocument
    /\ assembled = NoDocument
    /\ last_op = ""
    /\ written = NoFile
    /\ document_metadata = <<>>
    /\ spc = "idle"
    /\ documents = <<>>
    /\ step_output = NoOutput
    /\ len_documents = 0

SpecUrls == InitUrls /\ [][NextUrls]_vars

\* a Document that extract_document has just returned, and the calls of
\* its methods, in any order and number
InitDocument ==
    /\ fpc = "idle"
    /\ stack = <<>>
    /\ root = <<>>
    /\ result = [content |-> <<>>, urls |-> <<>>]
    /\ ferror = ""
    /\ left = MaxNodes
    /\ maxDepth = -1
    /\ nfetch = 0
    /\ rawUrls = <<>>
    /\ visited = <<>>
    /\ warned = <<>>
    /\ normalized = {}
    /\ replay = FALSE
    /\ source = <<>>
    /\ first = NoCall
    /\ loop_running = FALSE
    /\ max_concurrent_requests = 1
    /\ pages = <<>>
    /\ epc = "idle"
    /\ eerror = ""
    /\ page = 0
    /\ tasks = <<>>
    /\ semaphor = 0
    /\ all_results = <<>>
    /\ returned = <<>>
    /\ counts = [success_count |-> 0, failed_count |-> 0, total_count |-> 0]
    /\ spans = <<>>
    /\ extracted = NotCalled
    /\ \E metadata \in Metadatas :
          \E content \in {<<>>, <<"a", NL, "b">>} :
              \E urls \in {<<>>, <<<<"u", "/">>, <<"v", "/">>>>} :
                  document = extract_document(metadata, content, urls)
    /\ assembled = document
    /\ last_op = "extract_document"
    /\ written = NoFile
    /\ document_metadata = <<>>
    /\ spc = "idle"
    /\ documents = <<>>
    /\ step_output = NoOutput
    /\ len_documents = 0

SpecDocument == InitDocument /\ [][NextDocument]_vars

\* one run of the extract_notion_documents step on some list of records
InitCollect ==
    /\ fpc = "idle"
    /\ stack = <<>>
    /\ root = <<>>
    /\ result = [content |-> <<>>, urls |-> <<>>]
    /\ ferror = ""
    /\ left = MaxNodes
    /\ maxDepth = -1
    /\ nfetch = 0
    /\ rawUrls = <<>>
    /\ visited = <<>>
    /\ warned = <<>>
    /\ normalized = {}
    /\ replay = FALSE
    /\ source = <<>>
    /\ first = NoCall
    /\ loop_running = FALSE
    /\ max_concurrent_requests = 1
    /\ pages = <<>>
    /\ epc = "idle"
    /\ eerror = ""
    /\ page = 0
    /\ tasks = <<>>
    /\ semaphor = 0
    /\ all_results = <<>>
    /\ returned = <<>>
    /\ counts = [success_count |-> 0, failed_count |-> 0, total_count |-> 0]
    /\ spans = <<>>
    /\ extracted = NotCalled
    /\ document = NoDocument
    /\ assembled = NoDocument
    /\ last_op = ""
    /\ written = NoFile
    /\ document_metadata \in MetadataLists
    /\ spc = "idle"
    /\ documents = <<>>
    /\ step_output = NoOutput
    /\ len_documents = 0

SpecCollect == InitCollect /\ [][NextCollect]_vars

\* the crawler called from a thread with or without a running event loop
InitCall ==
    /\ fpc = "idle"
    /\ stack = <<>>
    /\ root = <<>>
    /\ result = [content |-> <<>>, urls |-> <<>>]
    /\ ferror = ""
    /\ left = MaxNodes
    /\ maxDepth = -1
    /\ nfetch = 0
    /\ rawUrls = <<>>
    /\ visited = <<>>
    /\ warned = <<>>
    /\ normalized = {}
    /\ replay = FALSE
    /\ source = <<>>
    /\ first = NoCall
    /\ loop_running \in BOOLEAN
    /\ max_concurrent_requests \in -1..MaxCap
    /\ pages \in Batches
    /\ epc = "idle"
    /\ eerror = ""
    /\ page = 0
    /\ tasks = [p \in 1..Len(pages) |-> [i \in 1..pages[p] |-> "pending"]]
    /\ semaphor = 0
    /\ all_results = <<>>
    /\ returned = <<>>
    /\ counts = [success_count |-> 0, failed_count |-> 0, total_count |-> 0]
    /\ spans = <<>>
    /\ extracted = NotCalled
    /\ document = NoDocument
    /\ assembled = NoDocument
    /\ last_op = ""
    /\ written = NoFile
    /\ document_metadata = <<>>
    /\ spc = "idle"
    /\ documents = <<>>
    /\ step_output = NoOutput
    /\ len_documents = 0

SpecCall == InitCall /\ [][NextExpand]_vars

\* the crawler under an event loop that keeps running what can run
SpecExpandFair == SpecExpand /\ WF_vars(NextExpand)

-----------------------------------------------------------------------------
(* Claims about the flattener.                                             *)

\* C1: no call of __parse_blocks is made with depth > 3, and no suspended
\* call at depth 3 or deeper has issued a child-block fetch: the child_page
\* trigger and the has_children trigger are both bounded by the depth counter.
C1_DepthBounded ==
    /\ maxDepth <= MaxChildPageDepth
    /\ \A i \in 1..Len(stack) : stack[i].depth < MaxChildPageDepth

\* C2: extract_document never raises because a child-block fetch failed or
\* returned no blocks: such a node counts as an empty block list and the
\* caller still receives a (content, urls) result.
C2_NeverRaisesOnSource ==
    ~(fpc = "raised" /\ ferror \in {"TypeError", "AttributeError"})

NoRecursionTriggers(blocks) ==
    \A i \in 1..Len(blocks) : blocks[i].type # "child_page" /\ ~blocks[i].has_children

\* the per-type rule applied to every block of the list, in input order, trimmed
ExpectedFlatContent(blocks) == Strip(Flatten([i \in 1..Len(blocks) |-> BlockText(blocks[i])]))

\* C9: for a block list of any length without child_page blocks and without
\* has_children flags, the flattened content is the concatenation, in input
\* order, of the per-type rule of every block, trimmed, and no child-block
\* fetch is issued while parsing it.
C9_FlatContent ==
    (fpc = "returned" /\ NoRecursionTriggers(root))
        => /\ result.content = ExpectedFlatContent(root)
           /\ nfetch = 0

NoDuplicates(s) == \A i, j \in 1..Len(s) : i # j => s[i] # s[j]

\* C10: the URL list flatten returns holds no two equal entries and no
\* empty string.
C10_UrlsDistinctNonEmpty ==
    fpc = "returned"
        => /\ NoDuplicates(result.urls)
           /\ \A i \in 1..Len(result.urls) : result.urls[i] # NoUrl

\* C10's case: a returned result whose urls list held, before line 245, the
\* same link twice and the link of a link_preview without a URL, with links
\* coming from nested children
C10_Witness ==
    /\ fpc = "returned"
    /\ nfetch > 0
    /\ ~NoDuplicates(rawUrls)
    /\ \E i \in 1..Len(result.urls) : result.urls[i] = <<"/">>

\* C11: the child-block fetches one flatten call issues are bounded by the
\* depth limit, whatever the block source holds: a call of __parse_blocks
\* looks into one block, so no more than one fetch is issued per depth
\* 0, 1, 2, also on a source that goes deeper or leads back to itself.
C11_FetchesBounded == nfetch <= MaxChildPageDepth

EndsWithSlash(url) == url # <<>> /\ Last(url) = "/"

\* C15: every call of __normalize_url returns its argument unchanged when it
\* ends with "/", and with one "/" appended when it does not; normalizing
\* the value again changes nothing; every URL of a flatten result is the
\* value of such a call, so it ends with "/".
C15_NormalizedUrls ==
    /\ \A c \in normalized :
          /\ EndsWithSlash(c.url) => c.value = c.url
          /\ ~EndsWithSlash(c.url) => c.value = c.url \o <<"/">>
          /\ normalize_url(c.value) = c.value
    /\ fpc = "returned"
          => \A i \in 1..Len(result.urls) :
                /\ result.urls[i] \in {c.value : c \in normalized}
                /\ EndsWithSlash(result.urls[i])

\* C15's case: a returned result with several URLs, after calls of
\* __normalize_url on a URL with a final "/", on one without, and on the
\* empty URL
C15_Witness ==
    /\ fpc = "returned"
    /\ Len(result.urls) >= 2
    /\ \E c \in normalized : EndsWithSlash(c.url)
    /\ \E c \in normalized : c.url # NoUrl /\ ~EndsWithSlash(c.url)
    /\ \E c \in normalized : c.url = NoUrl

CountOf(token, s) == Cardinality({i \in 1..Len(s) : s[i] = token})

\* C18: a child_page block met at depth 3 or deeper triggers no fetch, is
\* not logged as an unknown block type, and still gets its <child_page>
\* wrapper: the content returned holds one wrapper per child_page block met.
C18_DeepChildPageWrapped ==
    /\ \A i \in 1..Len(stack) : stack[i].via = "child_page" => stack[i].depth < MaxChildPageDepth
    /\ \A i \in 1..Len(warned) : warned[i].type # "child_page"
    /\ fpc = "returned"
          => CountOf("<child_page>", result.content)
                 = Cardinality({i \in 1..Len(visited) : visited[i].type = "child_page"})

IsPrefix(t, s) == Len(t) <= Len(s) /\ SubSeq(s, 1, Len(t)) = t
IsSuffix(t, s) == Len(t) <= Len(s) /\ SubSeq(s, Len(s) - Len(t) + 1, Len(s)) = t

RecursionTrigger(block) == block.type = "child_page" \/ block.has_children
SimpleBlock(block) == ~RecursionTrigger(block) /\ ~BlockUrls(block).err

\* C19: the output follows the input order across recursion.  For a list
\* of two blocks, one expanded recursively and one not: the text of the
\* later sibling ends the content when the expanded block comes first, and
\* the text of the earlier sibling starts the content, the expansion
\* having run after it, when the expanded block comes second.
C19_OrderAcrossRecursion ==
    (fpc = "returned" /\ Len(root) = 2)
        => /\ (RecursionTrigger(root[1]) /\ SimpleBlock(root[2]))
                 => IsSuffix(RStrip(BlockText(root[2])), result.content)
           /\ (SimpleBlock(root[1]) /\ RecursionTrigger(root[2]))
                 => /\ IsPrefix(LStrip(BlockText(root[1])), result.content)
                    /\ nfetch >= 1

HeadHasChildren == root # <<>> /\ Head(root).type # "child_page" /\ Head(root).has_children

\* C20: when the first block of the page is not a child_page and has
\* has_children set, whatever its type and text, its children are fetched
\* and flattened at depth 1; the content returned is the block's own text
\* followed by the children's content with one tab before its first line,
\* and the block's own URLs are among the URLs returned; no suspended call
\* waits, through the has_children path, for the children of a child_page.
C20_ChildrenExpanded ==
    /\ (fpc \in {"returned", "raised"} /\ HeadHasChildren)
          => /\ nfetch >= 1
             /\ maxDepth >= 1
             /\ fpc = "returned"
                   => /\ IsPrefix(LStrip(BlockText(Head(root))) \o <<TAB>>, result.content)
                      /\ Range(BlockUrls(Head(root)).urls) \subseteq Range(result.urls)
    /\ \A i \in 1..Len(stack) : stack[i].via = "has_children" => visited[i].type # "child_page"

-----------------------------------------------------------------------------
(* Claims about __extract_urls.                                            *)

\* what the claim has a span yield: its normalized href when that is not
\* empty, else the normalized URL its annotations carry, else nothing
ClaimedUrls(text) ==
    IF text.href # NoUrl THEN <<normalize_url(text.href)>>
    ELSE IF text.annotations.kind = "url" /\ text.annotations.url # NoUrl
    THEN <<normalize_url(text.annotations.url)>>
    ELSE <<>>

\* C14: __extract_urls never raises, whatever the spans, and returns, in
\* span order, the normalized URL of exactly the spans that have a
\* non-empty href or annotations carrying a URL.
C14_ExtractUrlsTotal ==
    extracted.called
        => /\ ~extracted.raised
           /\ extracted.urls = Flatten([i \in 1..Len(spans) |-> ClaimedUrls(spans[i])])

-----------------------------------------------------------------------------
(* Claims about Document and about the step.                               *)

\* C13, as stated: whatever methods were called on it since, the id of a
\* Document is the id extract_document gave it.
C13_IdNeverChanges == document.id = assembled.id

\* C13, amended: a call changes the id of a Document only when it is
\* obsfucate or write with obsfucate=True, and the id is then the id of the
\* obfuscated metadata; add_summary, add_quality_score and write without
\* obsfucate leave the id as it is.
C13_IdChangesOnlyByObsfucate ==
    [][document'.id # document.id
          => /\ last_op' \in {"obsfucate", "write_obsfucate"}
             /\ document'.id = document'.metadata.id]_vars

\* C13's case: a Document whose id is no longer the one it was assembled
\* with, and whose last call was a write without obsfucate
C13_Witness ==
    /\ document.id # assembled.id
    /\ last_op = "write"
    /\ written.name = document.id

\* C16: no method call changes content or child_urls; add_summary changes
\* summary and nothing else; add_quality_score changes
\* content_quality_score and nothing else; obsfucate and write change
\* neither summary nor content_quality_score.
C16_ContentImmutable ==
    [][/\ document'.content = document.content
       /\ document'.child_urls = document.child_urls
       /\ last_op' = "add_summary" => document' = [document EXCEPT !.summary = document'.summary]
       /\ last_op' = "add_quality_score"
             => document' = [document EXCEPT !.content_quality_score = document'.content_quality_score]
       /\ last_op' \in {"obsfucate", "write", "write_obsfucate"}
             => /\ document'.summary = document.summary
                /\ document'.content_quality_score = document.content_quality_score]_vars

\* C16's case: a Document with content and child URLs that was given a
\* summary and a quality score, then obfuscated and written
C16_Witness ==
    /\ document.content # <<>>
    /\ document.child_urls # <<>>
    /\ document.summary # NoSummary
    /\ document.content_quality_score # NoScore
    /\ document.id \in generate_random_hex
    /\ last_op = "write_obsfucate"
    /\ written.txt = document.content

\* C17: the step returns a list with one Document per DocumentMetadata
\* record it was given, in input order, each with the id of its record.
C17_OneDocumentPerRecord ==
    spc = "returned"
        => /\ ~step_output.none
           /\ Len(step_output.list) = Len(document_metadata)
           /\ \A i \in 1..Len(step_output.list) : step_output.list[i].id = document_metadata[i].id

-----------------------------------------------------------------------------
(* Claims about the crawler.                                               *)

AllTasks == {pi \in (1..Len(pages)) \X (1..MaxUrls) : pi[2] <= pages[pi[1]]}
TaskState(pi) == tasks[pi[1]][pi[2]]
InFlight == {pi \in AllTasks : TaskState(pi) = "in_flight"}
TotalUrls == Cardinality(AllTasks)
PagesWithUrls == {p \in 1..Len(pages) : pages[p] > 0}

\* C3: the fetches in flight, over the tasks of all input documents, are
\* never more than max_concurrent_requests (and none under a cap below 1).
C3_InFlightBounded == Cardinality(InFlight) <= Max(max_concurrent_requests, 0)

\* C3's case: the cap fully used by tasks of the second document of a
\* batch while a further task waits for the semaphore
C3_Witness ==
    /\ max_concurrent_requests >= 1
    /\ Cardinality(InFlight) = max_concurrent_requests
    /\ page >= 2
    /\ \E pi \in AllTasks : TaskState(pi) = "waiting"

\* C4: a task that fails, by returning None or by raising, neither cancels
\* nor blocks a sibling: once the batch is over every task has run to its
\* own end and every successful task's document is in the returned result.
C4_FailureIsolated ==
    (epc \in {"returned", "raised"} /\ eerror # "ValueError")
        => \A pi \in AllTasks :
              /\ TaskState(pi) \in {"ok", "fail", "raised"}
              /\ TaskState(pi) = "ok" => \E k \in 1..Len(returned) : returned[k] = Doc(pi[1], pi[2])

\* C5: the batch returns only when every task of every input document has
\* ended in success or failure, and the returned list holds exactly the
\* documents of the successful tasks: each once, no None, nothing else.
C5_ReturnsExactlySuccesses ==
    epc = "returned"
        => /\ \A pi \in AllTasks : TaskState(pi) \in {"ok", "fail"}
           /\ Range(returned) = {Doc(pi[1], pi[2]) : pi \in {qi \in AllTasks : TaskState(qi) = "ok"}}
           /\ NoDuplicates(returned)

\* C5's case: a returned batch of two documents with URLs, with successes
\* and failures among its tasks
C5_Witness ==
    /\ epc = "returned"
    /\ Cardinality(PagesWithUrls) >= 2
    /\ \E pi \in AllTasks : TaskState(pi) = "ok"
    /\ \E pi \in AllTasks : TaskState(pi) = "fail"

TaskRaised == \E pi \in AllTasks : TaskState(pi) = "raised"

AllFailed == TotalUrls >= 1 /\ \A pi \in AllTasks : TaskState(pi) = "fail"

C8_BadCapRejected ==
    max_concurrent_requests <= 0
        => /\ epc \in {"idle", "raised"}
           /\ \A pi \in AllTasks : TaskState(pi) = "pending"

\* C21: calling the crawler never raises because of the event-loop state
\* of the calling thread: with a loop running as well as without one, the
\* call does not end in the RuntimeError of the event loop.
C21_CallInAnyLoopState == ~(epc = "raised" /\ eerror = "RuntimeError")

\* C22: whatever methods were called on a Document since extract_document
\* returned it, its id is the id of its metadata.
C22_IdIsMetadataId == document.id = document.metadata.id

\* C22's case: a Document with a parent that was obfuscated, so that id,
\* metadata id and url are new, and then given a summary
C22_Witness ==
    /\ document.id # assembled.id
    /\ document.metadata.url # assembled.metadata.url
    /\ document.parent_metadata # NoParent
    /\ document.parent_metadata.id # assembled.parent_metadata.id
    /\ last_op = "add_summary"

TerminalStates == {"ok", "fail", "raised", "cancelled"}

\* C24: the input documents are processed one after another: while a task
\* of a document is waiting, in flight or ended, every task of every
\* earlier document has ended, so fetches of two documents are never in
\* flight together, whatever the cap.
C24_OnePageAtATime ==
    \A pi, qi \in AllTasks :
        (pi[1] < qi[1] /\ TaskState(qi) # "pending") => TaskState(pi) \in TerminalStates

\* C24's case: a cap of two or more, the first document's two fetches have
\* ended, and a fetch of the second document is in flight with permits
\* to spare
C24_Witness ==
    /\ max_concurrent_requests >= 2
    /\ Len(pages) >= 2
    /\ pages[1] >= 2
    /\ \E qi \in InFlight : qi[1] = 2
    /\ semaphor >= 1

\* C25: from the creation of the semaphore on, the permits held by tasks
\* in flight and the free permits add up to max_concurrent_requests,
\* however tasks end; when the batch has returned, or has been ended by
\* the exception of a task, every permit is free.
C25_PermitsConserved ==
    epc \in {"gather", "returned"} \/ (epc = "raised" /\ eerror = "TaskError")
        => /\ semaphor + Cardinality(InFlight) = max_concurrent_requests
           /\ epc # "gather" => semaphor = max_concurrent_requests

\* C25's case: one task has ended by raising and given its permit back
\* while a sibling still holds one
C25_Witness ==
    /\ epc = "gather"
    /\ TaskRaised
    /\ InFlight # {}
    /\ semaphor + Cardinality(InFlight) = max_concurrent_requests

=============================================================================
